---------------------------- MODULE Spec2Model ----------------------------
(***************************************************************************)
(* A model of lib/ddq-backend-mysql.js: the DdqBackendMySql controller     *)
(* (listen / pausePolling / resumePolling / checkNow / sendMessage), the   *)
(* record operations bound into a delivered message (heartbeat, requeue,   *)
(* remove), the two timer loops (poll.findData, restore.heartbeatCleanup)  *)
(* and the shared MySQL table they all talk to.                            *)
(*                                                                         *)
(* The table is a set of rows.  Every SQL statement of the source is       *)
(* modelled by its WHERE clause (an operator over one row) and its SET     *)
(* list; a statement is applied to the table atomically, at the moment its *)
(* reply step is taken, so that statements of different workers interleave *)
(* at statement granularity, as they do on the server.                     *)
(***************************************************************************)
EXTENDS Integers, FiniteSets, TLC

(***************************************************************************)
(* Bounds of the model.                                                    *)
(***************************************************************************)
\* the clock runs from 0 to MaxTime (in seconds)
MaxTime == 2
\* length of a calendar day in seconds, scaled down
SecondsPerDay == 2
\* at most this many pending timers of one loop of one controller
MaxTimers == 2
\* at most this many selection queries of one controller awaiting their reply
MaxInFlight == 2
\* config.createMessageCycleLimitMs
CreateMessageCycleLimitMs == 2
\* config.heartbeatLifetimeSeconds
HeartbeatLifetimeSeconds == 1

NULL == "NULL"

\* a NULL heartbeatDate, the column's default (dates are numbers from 0)
NullDate == -1

\* this.poller = null, this.restorer = null (timer handles are numbered from 1)
NoTimer == 0

\* the worker processes, each holding one DdqBackendMySql instance
Workers == {"w1", "w2"}

\* this.owner = crypto.randomBytes(64).toString("hex"): one identity per
\* instance, distinct between instances
OwnerOf(w) == IF w = "w1" THEN "o1" ELSE "o2"

Owners == {OwnerOf(w) : w \in Workers}

\* config.topics of each instance
ConfigTopics(w) == IF w = "w1" THEN {"t1"} ELSE {"t2"}

Topics == {"t1", "t2"}

\* the payloads a producer sends
Messages == {"A", "B"}

\* crypto.createHash("sha256").update(message).digest("hex"): a digest is
\* determined by the payload and differs between different payloads
Sha256(message) == IF message = "A" THEN "hA" ELSE "hB"

Hashes == {Sha256(m) : m \in Messages}

MessageOf(hash) == CHOOSE m \in Messages : Sha256(m) = hash

VARIABLES
    store,      \* the table: a set of rows
    now,        \* the server clock, NOW()
    ctl,        \* per worker: currentlyPolling, poller, restorer
    timers,     \* per worker: the pending timers, [id, fn]
    scans,      \* per worker: findData queries issued and not yet answered
    send,       \* per worker: the sendMessage call in progress
    rm,         \* per worker: the remove call in progress
    handles,    \* per worker: hashes it holds a delivered wrapper for
    lastOp      \* the step just taken and what it reported

vars == <<store, now, ctl, timers, scans, send, rm, handles, lastOp>>

(***************************************************************************)
(* Rows.  INSERT names hash, messageBase64 and topics; the other columns   *)
(* take the table's defaults.                                              *)
(***************************************************************************)
NewRecord(hash, message, topics) ==
    [hash |-> hash, messageBase64 |-> message, topics |-> topics,
     isProcessing |-> FALSE, owner |-> NULL, heartbeatDate |-> NullDate,
     requeued |-> FALSE]

\* a row under lease, as the queries of heartbeat, heartbeatCleanup and
\* writeRecord expect to find them (isProcessing = true, an owner, a
\* heartbeatDate).  No statement of this file sets isProcessing = true: such
\* rows are written by other clients of the table, and are in it at the start
LeasedRecord(hash, topics, owner) ==
    [hash |-> hash, messageBase64 |-> MessageOf(hash), topics |-> topics,
     isProcessing |-> TRUE, owner |-> owner, heartbeatDate |-> 0,
     requeued |-> FALSE]

Op(op, w, hash, rows, ev) ==
    [op |-> op, w |-> w, hash |-> hash, rows |-> rows, ev |-> ev]

(***************************************************************************)
(* The WHERE clauses.                                                      *)
(***************************************************************************)
\* (a heartbeat that does not check the owner)
HeartbeatWhereAnyOwner(r, recordId, owner) ==
    r.hash = recordId /\ r.isProcessing = TRUE

\* heartbeat: WHERE hash = ? AND isProcessing = true AND owner = ?
HeartbeatWhere(r, recordId, owner) ==
    r.hash = recordId /\ r.isProcessing = TRUE /\ r.owner = owner

\* findData: WHERE isProcessing = false AND topics IN (?) OR topics IS NULL
\* (AND binds tighter than OR)
FindDataWhere(r, topics) ==
    (r.isProcessing = FALSE /\ r.topics \in topics) \/ r.topics = NULL

\* requeue: WHERE hash = ?
RequeueWhere(r, recordId) == r.hash = recordId

\* (a remove that deletes whatever the requeued flag says)
RemoveWhereAnyFlag(r, recordId) == r.hash = recordId

\* (a remove that deletes only what the fallback has requeued)
RemoveWhereRequeuedOnly(r, recordId) == r.hash = recordId /\ r.requeued = TRUE

\* remove: WHERE hash = ? AND requeued = false
RemoveWhere(r, recordId) == r.hash = recordId /\ r.requeued = FALSE

\* checkNow: WHERE topics IN (?) OR topics IS NULL
CheckNowWhere(r, topics) == r.topics \in topics \/ r.topics = NULL

\* writeRecord: WHERE hash = ? AND isProcessing = true
WriteRecordWhere(r, hash) == r.hash = hash /\ r.isProcessing = TRUE

\* INSERT fails with ER_DUP_ENTRY when a row with the hash exists
DupEntry(hash) == \E r \in store : r.hash = hash

(***************************************************************************)
(* Dates, as MySQL computes with them.  A DATETIME is the number of        *)
(* seconds since midnight of the day the model starts on, day 1.           *)
(***************************************************************************)
DayOf(t) == 1 + (t \div SecondsPerDay)

\* SEC_TO_TIME(seconds): a TIME value of that many seconds; where a date is
\* expected a TIME is taken on the current date
SEC_TO_TIME(seconds) == ((now \div SecondsPerDay) * SecondsPerDay) + seconds

\* DATEDIFF(a, b): the days from b to a, only the date parts are used
DATEDIFF(a, b) == DayOf(a) - DayOf(b)

\* a DATETIME compared with a number is taken as the number YYYYMMDDhhmmss:
\* the day in the high digits, the time of day in the low ones
DateTimeAsNumber(t) == (DayOf(t) * SecondsPerDay) + (t % SecondsPerDay)

\* heartbeatCleanup:
\* WHERE DATEDIFF(NOW(), SEC_TO_TIME(?)) > heartbeatDate AND isProcessing = true
\* (a comparison with a NULL heartbeatDate is not true)
HeartbeatCleanupWhere(r, lifetime) ==
    /\ r.heartbeatDate # NullDate
    /\ DATEDIFF(now, SEC_TO_TIME(lifetime)) > DateTimeAsNumber(r.heartbeatDate)
    /\ r.isProcessing = TRUE

(***************************************************************************)
(* Initial state: the instances as their constructors leave them, and a    *)
(* table holding at most one row per hash.                                 *)
(***************************************************************************)
InitRows(hash) ==
    {NewRecord(hash, MessageOf(hash), t) : t \in Topics \cup {NULL}}
    \cup {LeasedRecord(hash, t, o) : t \in Topics \cup {NULL}, o \in Owners}

InitStores(hashes) ==
    {s \in SUBSET (UNION {InitRows(h) : h \in hashes}) :
        \A r1, r2 \in s : r1.hash = r2.hash => r1 = r2}

IdleSend ==
    [pc |-> "idle", hash |-> NULL, topics |-> NULL, cycleCounter |-> 0,
     inserts |-> 0, result |-> "none", callbacks |-> 0, emits |-> 0]

IdleRemove ==
    [pc |-> "idle", hash |-> NULL, deleted |-> FALSE, requeued |-> FALSE,
     emitted |-> FALSE]

InitWith(stores) ==
    /\ store \in stores
    /\ now = 1
    /\ ctl = [w \in Workers |->
                [currentlyPolling |-> FALSE, poller |-> NoTimer,
                 restorer |-> NoTimer]]
    /\ timers = [w \in Workers |-> {}]
    /\ scans = [w \in Workers |-> 0]
    /\ send = [w \in Workers |-> IdleSend]
    /\ rm = [w \in Workers |-> IdleRemove]
    /\ handles = [w \in Workers |-> {}]
    /\ lastOp = Op("init", NULL, NULL, 0, "none")

\* the table holds rows of payload "A" only
Init == InitWith(InitStores({Sha256("A")}))

\* the table holds rows of both payloads
InitPoll == InitWith(InitStores(Hashes))

(***************************************************************************)
(* The statements' effects on the table.                                   *)
(***************************************************************************)
\* heartbeat: SET heartbeatDate = NOW()
HeartbeatSet(r) == [r EXCEPT !.heartbeatDate = now]

\* (a requeue that releases the owner and leaves isProcessing as it is)
RequeueSetStillProcessing(r) == [r EXCEPT !.owner = NULL, !.requeued = TRUE]

\* (a requeue that keeps the owner)
RequeueSetKeepsOwner(r) == [r EXCEPT !.isProcessing = FALSE, !.requeued = TRUE]

\* requeue: SET owner = null, isProcessing = false, requeued = true
RequeueSet(r) ==
    [r EXCEPT !.owner = NULL, !.isProcessing = FALSE, !.requeued = TRUE]

\* heartbeatCleanup: SET isProcessing = false, owner = null, requeued = false
HeartbeatCleanupSet(r) ==
    [r EXCEPT !.isProcessing = FALSE, !.owner = NULL, !.requeued = FALSE]

\* writeRecord: SET requeued = true
WriteRecordSet(r) == [r EXCEPT !.requeued = TRUE]

(***************************************************************************)
(* heartbeat(ddqBackendInstance, recordId, callback), called through the   *)
(* wrapper of a delivered message.  The query fails or is applied; either  *)
(* way the callback gets the error value.                                  *)
(***************************************************************************)
\* (a heartbeat that emits its error instead of handing it to the callback)
HeartbeatReportEmits(err) == IF err THEN "error" ELSE "callback"

\* the query's callback: if (err) console.error(err); callback(err);
HeartbeatReport(err) == IF err THEN "callbackErr" ELSE "callback"

Heartbeat(w, recordId) ==
    /\ recordId \in handles[w]
    /\ \/ /\ store' = store
          /\ lastOp' = Op("heartbeat", w, recordId, 0, HeartbeatReport(TRUE))
       \/ LET matched == {r \in store : HeartbeatWhere(r, recordId, OwnerOf(w))}
          IN  /\ store' = (store \ matched) \cup {HeartbeatSet(r) : r \in matched}
              /\ lastOp' = Op("heartbeat", w, recordId, Cardinality(matched),
                              HeartbeatReport(FALSE))
    /\ UNCHANGED <<now, ctl, timers, scans, send, rm, handles>>

(***************************************************************************)
(* requeue(ddqBackendInstance, recordId, callback), called through the     *)
(* wrapper.                                                                *)
(***************************************************************************)
Requeue(w, recordId) ==
    /\ recordId \in handles[w]
    /\ \/ /\ store' = store
          /\ lastOp' = Op("requeue", w, recordId, 0, "callbackErr")
       \/ LET matched == {r \in store : RequeueWhere(r, recordId)}
          IN  /\ store' = (store \ matched) \cup {RequeueSet(r) : r \in matched}
              /\ lastOp' = Op("requeue", w, recordId, Cardinality(matched),
                              "callback")
    /\ UNCHANGED <<now, ctl, timers, scans, send, rm, handles>>

(***************************************************************************)
(* remove(ddqBackendInstance, recordId), called through the wrapper: the   *)
(* DELETE and its callback.  Only an error of the DELETE starts the        *)
(* fallback requeue.                                                       *)
(***************************************************************************)
Remove(w, recordId) ==
    /\ recordId \in handles[w]
    /\ rm[w].pc \in {"idle", "done"}
    /\ \/ /\ store' = store
          /\ rm' = [rm EXCEPT ![w] = [pc |-> "requeue", hash |-> recordId,
                      deleted |-> FALSE, requeued |-> TRUE, emitted |-> FALSE]]
          /\ lastOp' = Op("remove", w, recordId, 0, "err")
       \/ LET matched == {r \in store : RemoveWhere(r, recordId)}
          IN  /\ store' = store \ matched
              /\ rm' = [rm EXCEPT ![w] = [pc |-> "done", hash |-> recordId,
                          deleted |-> matched # {}, requeued |-> FALSE,
                          emitted |-> FALSE]]
              /\ lastOp' = Op("remove", w, recordId, Cardinality(matched), "none")
    /\ UNCHANGED <<now, ctl, timers, scans, send, handles>>

\* the fallback requeue's callback: emit(EMIT_ERR, requeueErr), whatever
\* requeueErr is: "error" carries the requeue's error, "errorNull" is the
\* "error" event emitted with no error after a requeue that succeeded
RemoveRequeueReport(requeueErr) == IF requeueErr THEN "error" ELSE "errorNull"

RemoveRequeueReply(w) ==
    /\ rm[w].pc = "requeue"
    /\ \/ /\ store' = store
          /\ lastOp' = Op("removeRequeue", w, rm[w].hash, 0,
                          RemoveRequeueReport(TRUE))
       \/ LET matched == {r \in store : RequeueWhere(r, rm[w].hash)}
          IN  /\ store' = (store \ matched) \cup {RequeueSet(r) : r \in matched}
              /\ lastOp' = Op("removeRequeue", w, rm[w].hash,
                              Cardinality(matched), RemoveRequeueReport(FALSE))
    /\ rm' = [rm EXCEPT ![w].pc = "done", ![w].emitted = TRUE]
    /\ UNCHANGED <<now, ctl, timers, scans, send, handles>>

(***************************************************************************)
(* checkNow(): the SELECT and its callback.  On an error it emits "error"; *)
(* otherwise it reads record[0], which throws when no row matched, and     *)
(* emits "data" with the wrapper bound to record[0].hash.                  *)
(***************************************************************************)
\* (a checkNow that marks the record it delivers as claimed by the worker)
CheckNowClaims(w) ==
    /\ \/ /\ handles' = handles
          /\ store' = store
          /\ lastOp' = Op("checkNow", w, NULL, 0, "error")
       \/ LET matched == {r \in store : CheckNowWhere(r, ConfigTopics(w))}
          IN  \/ /\ matched = {}
                 /\ handles' = handles
                 /\ store' = store
                 /\ lastOp' = Op("checkNow", w, NULL, 0, "throw")
              \/ \E r \in matched :
                    /\ handles' = [handles EXCEPT ![w] = @ \cup {r.hash}]
                    /\ store' = (store \ {r}) \cup
                          {[r EXCEPT !.isProcessing = TRUE, !.owner = OwnerOf(w)]}
                    /\ lastOp' = Op("checkNow", w, r.hash, 1, "data")
    /\ UNCHANGED <<now, ctl, timers, scans, send, rm>>

CheckNow(w) ==
    /\ \/ /\ handles' = handles
          /\ lastOp' = Op("checkNow", w, NULL, 0, "error")
       \/ LET matched == {r \in store : CheckNowWhere(r, ConfigTopics(w))}
          IN  \/ /\ matched = {}
                 /\ handles' = handles
                 /\ lastOp' = Op("checkNow", w, NULL, 0, "throw")
              \/ \E r \in matched :
                    /\ handles' = [handles EXCEPT ![w] = @ \cup {r.hash}]
                    /\ lastOp' = Op("checkNow", w, r.hash, 1, "data")
    /\ UNCHANGED <<store, now, ctl, timers, scans, send, rm>>

(***************************************************************************)
(* sendMessage(message, topics, callback).                                 *)
(***************************************************************************)
\* the call has ended: its callback has run ("ok", "exhausted") or "error"
\* was emitted; the topics argument is not used again.  callbacks and emits
\* count the calls of callback and of emit(EMIT_ERR, err) of this call
Finished(s, result) ==
    [s EXCEPT !.pc = "done", !.result = result, !.topics = NULL,
              !.callbacks = IF result = "error" THEN @ ELSE @ + 1,
              !.emits = IF result = "error" THEN @ + 1 ELSE @]

\* (a retry bound that is off by one)
TrySendMessageOneMore(s) ==
    IF s.cycleCounter <= CreateMessageCycleLimitMs
    THEN [s EXCEPT !.pc = "insert", !.cycleCounter = @ + 1]
    ELSE Finished(s, "exhausted")

\* trySendMessage: the next insert is issued, or the callback gets
\* Error("Could not send message.")
TrySendMessage(s) ==
    IF s.cycleCounter < CreateMessageCycleLimitMs
    THEN [s EXCEPT !.pc = "insert", !.cycleCounter = @ + 1]
    ELSE Finished(s, "exhausted")

SendMessage(w, message, topics) ==
    /\ send[w].pc \in {"idle", "done"}
    /\ send' = [send EXCEPT ![w] =
                  TrySendMessage([pc |-> "idle", hash |-> Sha256(message),
                                  topics |-> topics, cycleCounter |-> 0,
                                  inserts |-> 0, result |-> "none",
                                  callbacks |-> 0, emits |-> 0])]
    /\ lastOp' = Op("sendMessage", w, Sha256(message), 0, "none")
    /\ UNCHANGED <<store, now, ctl, timers, scans, rm, handles>>

\* one more INSERT of the call has been sent and answered
Answered(s) == [s EXCEPT !.inserts = @ + 1]

\* the INSERT and its callback
InsertReply(w) ==
    /\ send[w].pc = "insert"
    /\ \/ /\ store' = store
          /\ send' = [send EXCEPT ![w] = Finished(Answered(@), "error")]
          /\ lastOp' = Op("insert", w, send[w].hash, 0, "error")
       \/ /\ DupEntry(send[w].hash)
          /\ store' = store
          /\ send' = [send EXCEPT ![w] = [Answered(@) EXCEPT !.pc = "update"]]
          /\ lastOp' = Op("insert", w, send[w].hash, 0, "dup")
       \/ /\ ~DupEntry(send[w].hash)
          /\ store' = store \cup
                {NewRecord(send[w].hash, MessageOf(send[w].hash), send[w].topics)}
          /\ send' = [send EXCEPT ![w] = Finished(Answered(@), "ok")]
          /\ lastOp' = Op("insert", w, send[w].hash, 1, "callback")
    /\ UNCHANGED <<now, ctl, timers, scans, rm, handles>>

\* (a writeRecord that calls the callback and then retries all the same)
WriteRecordNextBoth(s, affectedRows) ==
    IF affectedRows # 0
    THEN TrySendMessage([s EXCEPT !.callbacks = @ + 1])
    ELSE Finished(s, "ok")

\* writeRecord's callback: if (data.affectedRows) trySendMessage();
\* else callback();
WriteRecordNext(s, affectedRows) ==
    IF affectedRows # 0
    THEN TrySendMessage(s)
    ELSE Finished(s, "ok")

\* writeRecord: the UPDATE and its callback
WriteRecordReply(w) ==
    /\ send[w].pc = "update"
    /\ \/ /\ store' = store
          /\ send' = [send EXCEPT ![w] = Finished(@, "error")]
          /\ lastOp' = Op("update", w, send[w].hash, 0, "error")
       \/ LET matched == {r \in store : WriteRecordWhere(r, send[w].hash)}
          IN  /\ store' = (store \ matched) \cup {WriteRecordSet(r) : r \in matched}
              /\ send' = [send EXCEPT ![w] =
                            WriteRecordNext(send[w], Cardinality(matched))]
              /\ lastOp' = Op("update", w, send[w].hash, Cardinality(matched),
                              "none")
    /\ UNCHANGED <<now, ctl, timers, scans, rm, handles>>

\* the server clock advances
Tick ==
    /\ now < MaxTime
    /\ now' = now + 1
    /\ lastOp' = Op("tick", NULL, NULL, 0, "none")
    /\ UNCHANGED <<store, ctl, timers, scans, send, rm, handles>>

(***************************************************************************)
(* Timers.  timers.setTimeout returns a handle that no pending timer has;  *)
(* timers.clearTimeout(handle) drops the pending timer with that handle    *)
(* and does nothing for null.                                              *)
(***************************************************************************)
TimerIds == 1 .. (2 * MaxTimers + 2)

NewTimer(pending) ==
    CHOOSE id \in TimerIds :
        /\ id \notin {t.id : t \in pending}
        /\ \A other \in TimerIds :
              other \notin {t.id : t \in pending} => id <= other

SetTimeout(pending, fn) == pending \cup {[id |-> NewTimer(pending), fn |-> fn]}

ClearTimeout(pending, handle) == {t \in pending : t.id # handle}

Pending(w, fn) == {t \in timers[w] : t.fn = fn}

\* poll(ddqBackendInstance, callback) then restore(ddqBackendInstance):
\* each schedules its loop's first tick and stores the handle
PollAndRestore(w) ==
    LET polled   == SetTimeout(timers[w], "findData")
        restored == SetTimeout(polled, "heartbeatCleanup")
    IN  /\ timers' = [timers EXCEPT ![w] = restored]
        /\ ctl' = [ctl EXCEPT ![w] =
                     [currentlyPolling |-> TRUE,
                      poller |-> NewTimer(timers[w]),
                      restorer |-> NewTimer(polled)]]

\* listen(callback)
Listen(w) ==
    /\ Cardinality(Pending(w, "findData")) < MaxTimers
    /\ Cardinality(Pending(w, "heartbeatCleanup")) < MaxTimers
    /\ PollAndRestore(w)
    /\ lastOp' = Op("listen", w, NULL, 0, "none")
    /\ UNCHANGED <<store, now, scans, send, rm, handles>>

\* resumePolling(): as listen, the selection query gets no callback
ResumePolling(w) ==
    /\ Cardinality(Pending(w, "findData")) < MaxTimers
    /\ Cardinality(Pending(w, "heartbeatCleanup")) < MaxTimers
    /\ PollAndRestore(w)
    /\ lastOp' = Op("resumePolling", w, NULL, 0, "none")
    /\ UNCHANGED <<store, now, scans, send, rm, handles>>

\* pausePolling()
PausePolling(w) ==
    /\ timers' = [timers EXCEPT ![w] =
                    ClearTimeout(ClearTimeout(@, ctl[w].poller), ctl[w].restorer)]
    /\ ctl' = [ctl EXCEPT ![w] =
                 [currentlyPolling |-> FALSE, poller |-> NoTimer,
                  restorer |-> NoTimer]]
    /\ lastOp' = Op("pausePolling", w, NULL, 0, "none")
    /\ UNCHANGED <<store, now, scans, send, rm, handles>>

\* a findData timer fires: the SELECT is issued and the next tick is
\* scheduled at once, the handle stored in poller
FindData(w, t) ==
    /\ t \in Pending(w, "findData")
    /\ scans[w] < MaxInFlight
    /\ scans' = [scans EXCEPT ![w] = @ + 1]
    /\ timers' = [timers EXCEPT ![w] = SetTimeout(@ \ {t}, "findData")]
    /\ ctl' = [ctl EXCEPT ![w].poller = NewTimer(timers[w] \ {t})]
    /\ lastOp' = Op("findData", w, NULL, 0, "none")
    /\ UNCHANGED <<store, now, send, rm, handles>>

\* the SELECT of findData is answered: an error, no row, or one of the
\* matching rows (ORDER BY RAND() LIMIT 1)
FindDataReply(w) ==
    /\ scans[w] > 0
    /\ scans' = [scans EXCEPT ![w] = @ - 1]
    /\ \/ lastOp' = Op("findDataReply", w, NULL, 0, "callbackErr")
       \/ LET matched == {r \in store : FindDataWhere(r, ConfigTopics(w))}
          IN  \/ /\ matched = {}
                 /\ lastOp' = Op("findDataReply", w, NULL, 0, "callback")
              \/ \E r \in matched :
                    lastOp' = Op("findDataReply", w, r.hash, 1, "callback")
    /\ UNCHANGED <<store, now, ctl, timers, send, rm, handles>>

\* a heartbeatCleanup timer fires: the UPDATE (an error is emitted) and the
\* next tick, the handle stored in restorer
HeartbeatCleanup(w, t) ==
    /\ t \in Pending(w, "heartbeatCleanup")
    /\ \/ /\ store' = store
          /\ lastOp' = Op("heartbeatCleanup", w, NULL, 0, "error")
       \/ LET matched == {r \in store :
                            HeartbeatCleanupWhere(r, HeartbeatLifetimeSeconds)}
          IN  /\ store' = (store \ matched)
                            \cup {HeartbeatCleanupSet(r) : r \in matched}
              /\ lastOp' = Op("heartbeatCleanup", w, NULL, Cardinality(matched),
                              "none")
    /\ timers' = [timers EXCEPT ![w] = SetTimeout(@ \ {t}, "heartbeatCleanup")]
    /\ ctl' = [ctl EXCEPT ![w].restorer = NewTimer(timers[w] \ {t})]
    /\ UNCHANGED <<now, scans, send, rm, handles>>

(***************************************************************************)
(* The specifications.  Every worker produces; the workers in Consumers    *)
(* also run a controller and consume.                                      *)
(*                                                                         *)
(* Spec: the statements that write the table, interleaved: the sends of    *)
(* payload "A" by both workers, the wrapper operations of the consumer on  *)
(* the messages delivered to it, and the reclaimer of its controller.      *)
(*                                                                         *)
(* SpecPoll: the controller of the consumer, its two timer loops and       *)
(* checkNow, over a table of both payloads, with the clock advancing.      *)
(***************************************************************************)
Consumers == {"w1"}

Next ==
    \/ \E w \in Consumers : CheckNow(w)
    \/ \E w \in Consumers, h \in Hashes : Heartbeat(w, h)
    \/ \E w \in Consumers, h \in Hashes : Requeue(w, h)
    \/ \E w \in Consumers, h \in Hashes : Remove(w, h)
    \/ \E w \in Consumers : RemoveRequeueReply(w)
    \/ \E w \in Workers, t \in {"t1", NULL} : SendMessage(w, "A", t)
    \/ \E w \in Workers : InsertReply(w)
    \/ \E w \in Workers : WriteRecordReply(w)
    \/ \E w \in Consumers : Listen(w)
    \/ \E w \in Consumers : \E t \in timers[w] : HeartbeatCleanup(w, t)

Spec == Init /\ [][Next]_vars

NextPoll ==
    \/ \E w \in Consumers : Listen(w)
    \/ \E w \in Consumers : ResumePolling(w)
    \/ \E w \in Consumers : PausePolling(w)
    \/ \E w \in Consumers : \E t \in timers[w] : FindData(w, t)
    \/ \E w \in Consumers : FindDataReply(w)
    \/ \E w \in Consumers : \E t \in timers[w] : HeartbeatCleanup(w, t)
    \/ \E w \in Consumers : CheckNow(w)
    \/ Tick

SpecPoll == InitPoll /\ [][NextPoll]_vars

\* SpecLease: the wrapper operations of the consumer over a table of both
\* payloads, whose rows may be under the lease of either worker.
NextLease ==
    \/ \E w \in Consumers : CheckNow(w)
    \/ \E w \in Consumers, h \in Hashes : Heartbeat(w, h)
    \/ \E w \in Consumers, h \in Hashes : Requeue(w, h)
    \/ \E w \in Consumers, h \in Hashes : Remove(w, h)
    \/ \E w \in Consumers : RemoveRequeueReply(w)

SpecLease == InitPoll /\ [][NextLease]_vars

(***************************************************************************)
(* The queue from an empty table: every row there is was written by a      *)
(* sendMessage of the producer w2, and no row is under lease.  The         *)
(* consumer w1 listens, completes and requeues; both workers ask           *)
(* checkNow.                                                               *)
(***************************************************************************)
Producers == {"w2"}

InitFresh == InitWith({{}})

NextFresh ==
    \/ \E w \in Workers : CheckNow(w)
    \/ \E w \in Consumers, h \in Hashes : Heartbeat(w, h)
    \/ \E w \in Consumers, h \in Hashes : Requeue(w, h)
    \/ \E w \in Consumers, h \in Hashes : Remove(w, h)
    \/ \E w \in Consumers : RemoveRequeueReply(w)
    \/ \E w \in Producers, t \in {"t1", NULL} : SendMessage(w, "A", t)
    \/ \E w \in Producers : InsertReply(w)
    \/ \E w \in Producers : WriteRecordReply(w)
    \/ \E w \in Consumers : Listen(w)
    \/ \E w \in Consumers : \E t \in timers[w] : FindData(w, t)
    \/ \E w \in Consumers : FindDataReply(w)
    \/ \E w \in Consumers : \E t \in timers[w] : HeartbeatCleanup(w, t)

SpecFresh == InitFresh /\ [][NextFresh]_vars

(***************************************************************************)
(* One controller started by a single listen(): no pausePolling, no        *)
(* resumePolling, no second listen.  The store answers the selection       *)
(* queries whenever it likes.                                              *)
(***************************************************************************)
ListenOnce(w) ==
    /\ ctl[w].currentlyPolling = FALSE
    /\ Listen(w)

NextOneListen ==
    \/ \E w \in Consumers : ListenOnce(w)
    \/ \E w \in Consumers : \E t \in timers[w] : FindData(w, t)
    \/ \E w \in Consumers : FindDataReply(w)
    \/ \E w \in Consumers : \E t \in timers[w] : HeartbeatCleanup(w, t)
    \/ Tick

SpecOneListen == InitPoll /\ [][NextOneListen]_vars

(***************************************************************************)
(* The producers alone, with a consumer that requeues and removes what     *)
(* checkNow delivered to it.  The store answers every query it was sent:   *)
(* the callback of connection.query is eventually called.                  *)
(***************************************************************************)
NextSend ==
    \/ \E w \in Workers, t \in {"t1", NULL} : SendMessage(w, "A", t)
    \/ \E w \in Workers : InsertReply(w)
    \/ \E w \in Workers : WriteRecordReply(w)
    \/ \E w \in Consumers : CheckNow(w)
    \/ \E w \in Consumers, h \in Hashes : Requeue(w, h)
    \/ \E w \in Consumers, h \in Hashes : Remove(w, h)
    \/ \E w \in Consumers : RemoveRequeueReply(w)

SpecSend ==
    /\ Init
    /\ [][NextSend]_vars
    /\ \A w \in Workers : WF_vars(InsertReply(w))
    /\ \A w \in Workers : WF_vars(WriteRecordReply(w))

(***************************************************************************)
(* Properties.                                                             *)
(***************************************************************************)
RowOf(table, hash) == {r \in table : r.hash = hash}

\* the step just taken ended a sendMessage call of w with success
SendSucceeds(w) ==
    /\ send[w].pc # "done"
    /\ send'[w].pc = "done"
    /\ send'[w].result = "ok"

\* C1: the table never holds two rows with one hash, and a sendMessage call
\* reports success only by the step that inserted its row or by an UPDATE
\* that matched the existing row (and so set requeued on it): never with the
\* existing row left as it was.
C1_Uniqueness ==
    [][/\ \A r1, r2 \in store' : r1.hash = r2.hash => r1 = r2
       /\ \A w \in Workers :
            SendSucceeds(w) =>
               \/ /\ lastOp'.op = "insert"
                  /\ RowOf(store, send'[w].hash) = {}
                  /\ RowOf(store', send'[w].hash) # {}
               \/ /\ lastOp'.op = "update"
                  /\ lastOp'.rows > 0
                  /\ \A r \in RowOf(store', send'[w].hash) : r.requeued = TRUE]_vars

\* C2: a remove that has ended without deleting the row has issued the
\* fallback requeue or emitted "error".
C2_NoSilentLoss ==
    \A w \in Workers :
        (rm[w].pc = "done" /\ ~rm[w].deleted) =>
            (rm[w].requeued \/ rm[w].emitted)

\* C3: when the UPDATE of writeRecord is answered without an error, the call
\* ends with success and no further insert if rows were affected, and goes
\* back to the insert path (its next insert, or the exhaustion error if the
\* bound of C4 is reached) if none were.
C3_UpdateDecides ==
    [][\A w \in Workers :
          (send[w].pc = "update" /\ lastOp'.op = "update" /\ lastOp'.w = w
              /\ lastOp'.ev = "none") =>
             IF lastOp'.rows > 0
             THEN send'[w].pc = "done" /\ send'[w].result = "ok"
                  /\ send'[w].cycleCounter = send[w].cycleCounter
             ELSE \/ /\ send'[w].pc = "insert"
                     /\ send'[w].cycleCounter = send[w].cycleCounter + 1
                  \/ /\ send'[w].pc = "done"
                     /\ send'[w].result = "exhausted"]_vars

\* C4: a sendMessage call sends at most createMessageCycleLimit INSERTs; an
\* INSERT is in flight only within that bound, and the call that ends with
\* "Could not send message." has sent exactly that many.
C4_BoundedRetry ==
    \A w \in Workers :
        /\ send[w].inserts <= CreateMessageCycleLimitMs
        /\ send[w].pc = "insert" => send[w].inserts < CreateMessageCycleLimitMs
        /\ send[w].result = "exhausted" =>
              /\ send[w].pc = "done"
              /\ send[w].inserts = CreateMessageCycleLimitMs

\* a call ran into the bound: every INSERT met the row, every UPDATE sent
\* the call back to the insert path
C4_Witness ==
    \E w \in Workers :
        /\ send[w].result = "exhausted"
        /\ send[w].inserts = CreateMessageCycleLimitMs
        /\ lastOp.op = "update"

\* C5: a heartbeat of worker W for record R changes a row only if the row is
\* R's, has isProcessing = true and owner = W's identity, and then changes
\* its heartbeatDate alone; no step of any operation gives a row a lease it
\* did not hold, so that once R is reset (by the reclaimer or a requeue) a
\* heartbeat of the former owner matches no row and leaves the table as
\* it is.
C5_LeaseMonotonic ==
    [][/\ lastOp'.op = "heartbeat" =>
            /\ \A r \in store \ store' :
                  /\ r.hash = lastOp'.hash
                  /\ r.isProcessing = TRUE
                  /\ r.owner = OwnerOf(lastOp'.w)
                  /\ store' = (store \ {r})
                                \cup {[r EXCEPT !.heartbeatDate = now]}
            /\ (\A r \in RowOf(store, lastOp'.hash) : r.isProcessing = FALSE)
                  => (store' = store /\ lastOp'.rows = 0)
       /\ \A r2 \in store' :
            r2.isProcessing = TRUE =>
               \E r \in store :
                  r.hash = r2.hash /\ r.isProcessing = TRUE /\ r.owner = r2.owner
      ]_vars

\* the owner's heartbeat had renewed the lease (the row carries the date it
\* set), the row was then requeued, and its next heartbeat matched no row
C5_Witness ==
    /\ lastOp.op = "heartbeat"
    /\ lastOp.ev = "callback"
    /\ lastOp.rows = 0
    /\ \E r \in RowOf(store, lastOp.hash) :
          /\ r.heartbeatDate = now
          /\ r.isProcessing = FALSE
          /\ r.requeued = TRUE

\* the claim's "older than the lease lifetime"
LeaseExpired(r) ==
    /\ r.isProcessing = TRUE
    /\ r.heartbeatDate # NullDate
    /\ now - r.heartbeatDate > HeartbeatLifetimeSeconds

\* C6: while a worker is polling, a reclaimer tick of it whose UPDATE is
\* applied leaves every record that had isProcessing = true and a heartbeat
\* older than the lease lifetime with isProcessing = false, owner = null,
\* requeued = false.
C6_ReclaimLiveness ==
    [][\A w \in Workers :
          (lastOp'.op = "heartbeatCleanup" /\ lastOp'.w = w
              /\ lastOp'.ev = "none" /\ ctl[w].currentlyPolling) =>
             \A r \in store :
                LeaseExpired(r) =>
                   \E r2 \in RowOf(store', r.hash) :
                      /\ r2.isProcessing = FALSE
                      /\ r2.owner = NULL
                      /\ r2.requeued = FALSE]_vars

\* C7: a controller that is polling has exactly one pending findData timer
\* and exactly one pending heartbeatCleanup timer, one that is paused has
\* none.
C7_OneTimerPerLoop ==
    \A w \in Workers :
        IF ctl[w].currentlyPolling
        THEN /\ Cardinality(Pending(w, "findData")) = 1
             /\ Cardinality(Pending(w, "heartbeatCleanup")) = 1
        ELSE timers[w] = {}

\* C8: from the return of pausePolling to the next listen or resumePolling
\* (the time currentlyPolling is false) no findData tick and no
\* heartbeatCleanup tick of the controller fires; the replies of the
\* queries in flight are not restricted.
C8_NoTickWhilePaused ==
    [][\A w \in Workers :
          (lastOp'.op \in {"findData", "heartbeatCleanup"} /\ lastOp'.w = w)
             => ctl[w].currentlyPolling]_vars

\* C9: the row a findData tick selects and the row checkNow delivers in a
\* "data" event has isProcessing = false and a topic that is NULL or in the
\* worker's config.topics.
C9_ClaimEligibility ==
    [][(lastOp'.op \in {"findDataReply", "checkNow"} /\ lastOp'.hash # NULL) =>
          \A r \in RowOf(store, lastOp'.hash) :
             /\ r.isProcessing = FALSE
             /\ r.topics = NULL \/ r.topics \in ConfigTopics(lastOp'.w)]_vars

\* C10: a row leaves the table only by the DELETE of a remove, applied while
\* the row's requeued flag is false.
C10_NoDeleteOfRequeued ==
    [][\A r \in store :
          RowOf(store', r.hash) = {} =>
             /\ lastOp'.op = "remove"
             /\ lastOp'.hash = r.hash
             /\ r.requeued = FALSE]_vars

\* a remove was applied to a row flagged requeued, and the row is still there
C10_Witness ==
    /\ lastOp.op = "remove"
    /\ lastOp.ev = "none"
    /\ lastOp.rows = 0
    /\ \E r \in RowOf(store, lastOp.hash) : r.requeued = TRUE

\* the step just taken applied the UPDATE of requeue (called through the
\* wrapper, or as the fallback of remove)
RequeueApplied ==
    \/ lastOp'.op = "requeue" /\ lastOp'.ev = "callback"
    \/ lastOp'.op = "removeRequeue" /\ lastOp'.ev = "errorNull"

\* C11: a requeue that is applied, by whatever caller, leaves the record of
\* its identifier with owner = null, isProcessing = false, requeued = true,
\* its other columns and every other record as they were; applied again to
\* the table it has left, it leaves the table as it is.
C11_RequeueIdempotent ==
    [][RequeueApplied =>
          /\ store' = {IF r.hash = lastOp'.hash
                       THEN [r EXCEPT !.owner = NULL, !.isProcessing = FALSE,
                                      !.requeued = TRUE]
                       ELSE r : r \in store}
          /\ (\A r \in RowOf(store, lastOp'.hash) :
                 r.owner = NULL /\ r.isProcessing = FALSE /\ r.requeued = TRUE)
                => store' = store]_vars

\* the consumer has requeued a record that was under a lease (of either
\* worker: the table starts with leases of both), and the other record is
\* still under its lease
C11_Witness ==
    /\ lastOp.op = "requeue"
    /\ lastOp.ev = "callback"
    /\ lastOp.rows = 1
    /\ \E r \in RowOf(store, lastOp.hash) :
          /\ r.owner = NULL /\ r.isProcessing = FALSE /\ r.requeued = TRUE
          /\ r.heartbeatDate = 0
    /\ \E r \in store : r.hash # lastOp.hash /\ r.isProcessing = TRUE

\* C12: round trip of a payload.  A remove whose DELETE is answered without
\* error on a record that is not requeued leaves no record with that hash;
\* and the first INSERT of a sendMessage that finds no record with the
\* hash, if the store answers it without error, creates the record anew
\* (not processing, not requeued, no owner) and ends the call with its
\* callback after that one insert.
C12_RoundTrip ==
    [][/\ (/\ lastOp'.op = "remove"
           /\ lastOp'.ev = "none"
           /\ \E r \in RowOf(store, lastOp'.hash) : r.requeued = FALSE)
          => RowOf(store', lastOp'.hash) = {} /\ lastOp'.rows = 1
       /\ (/\ lastOp'.op = "insert"
           /\ lastOp'.ev # "error"
           /\ send[lastOp'.w].inserts = 0
           /\ RowOf(store, lastOp'.hash) = {})
          => /\ lastOp'.ev = "callback"
             /\ RowOf(store', lastOp'.hash) =
                   {[hash |-> lastOp'.hash,
                     messageBase64 |-> MessageOf(lastOp'.hash),
                     topics |-> send[lastOp'.w].topics,
                     isProcessing |-> FALSE, owner |-> NULL,
                     heartbeatDate |-> NullDate, requeued |-> FALSE]}
             /\ send'[lastOp'.w].result = "ok"
             /\ send'[lastOp'.w].inserts = 1
             /\ send'[lastOp'.w].callbacks = 1]_vars

\* the payload was sent, delivered to w1 and removed by w1, and a later
\* sendMessage of the same payload has just created its record again
C12_Witness ==
    /\ lastOp.op = "insert"
    /\ lastOp.ev = "callback"
    /\ rm["w1"].pc = "done"
    /\ rm["w1"].deleted
    /\ rm["w1"].hash = lastOp.hash
    /\ lastOp.hash \in handles["w1"]
    /\ send[lastOp.w].inserts = 1
    /\ RowOf(store, lastOp.hash) # {}

\* C13 as stated: a heartbeat whose query fails emits "error" on the
\* controller, so every heartbeat ends in the plain callback or in "error".
C13_HeartbeatErrorEmitted ==
    lastOp.op = "heartbeat" => lastOp.ev \in {"callback", "error"}

\* C13, amended: a heartbeat whose query fails logs the error and hands it to
\* the callback of the caller; it emits no "error" event and throws nothing,
\* and it leaves the table as it was.
C13_HeartbeatErrorToCallback ==
    [][lastOp'.op = "heartbeat" =>
          /\ lastOp'.ev \in {"callback", "callbackErr"}
          /\ lastOp'.ev = "callbackErr" => store' = store]_vars

\* a heartbeat on a record under w1's lease has just failed
C13_Witness ==
    /\ lastOp.op = "heartbeat"
    /\ lastOp.ev = "callbackErr"
    /\ \E r \in RowOf(store, lastOp.hash) :
          r.isProcessing = TRUE /\ r.owner = OwnerOf(lastOp.w)

\* C14: every record with isProcessing = true has an owner: from a table in
\* which this holds, no send, heartbeat, requeue, remove or reclaim writes a
\* record that is processing and has a null owner.
C14_OwnershipInvariant ==
    \A r \in store : r.isProcessing = TRUE => r.owner # NULL

\* a record under lease that a heartbeat and the UPDATE of a sendMessage
\* have both written is still processing and still owned
C14_Witness ==
    /\ lastOp.op = "update"
    /\ lastOp.rows = 1
    /\ \E r \in RowOf(store, lastOp.hash) :
          /\ r.isProcessing = TRUE
          /\ r.owner \in Owners
          /\ r.requeued = TRUE
          /\ r.heartbeatDate = now

\* C15 as stated: a controller started by a single listen never has more
\* than one selection query of the claim scanner outstanding, however late
\* the store answers.
C15_OneQueryOutstanding ==
    \A w \in Workers : scans[w] <= 1

\* C16 as stated: the fallback of remove emits "error" only when its requeue
\* has failed; after a requeue that succeeded nothing is emitted.
C16_ErrorOnlyWhenRequeueFails ==
    (lastOp.op = "removeRequeue" /\ rm[lastOp.w].emitted)
       => lastOp.ev = "error"

\* C17: delivery is read-only.  A tick of the claim scanner, the answer to
\* its selection query and a checkNow leave the table as it was; and from a
\* table in which no record is processing, no step of send, delivery,
\* heartbeat, requeue, remove or reclaim writes a record that is processing
\* or has an owner.
C17_DeliveryReadOnly ==
    [][/\ lastOp'.op \in {"checkNow", "findData", "findDataReply"}
          => store' = store
       /\ \A r \in store' : r.isProcessing = FALSE /\ r.owner = NULL]_vars

\* the same record has been delivered to both workers, neither has
\* completed it, and it is in the table as it was sent
C17_Witness ==
    /\ lastOp.op = "checkNow"
    /\ lastOp.ev = "data"
    /\ lastOp.hash \in handles["w1"] \cap handles["w2"]
    /\ rm["w1"].pc = "idle"
    /\ rm["w2"].pc = "idle"
    /\ \E r \in RowOf(store, lastOp.hash) :
          r.isProcessing = FALSE /\ r.owner = NULL /\ r.requeued = FALSE

InFlight(w) == send[w].pc \in {"insert", "update"}

\* C18: every sendMessage call ends, and ends once.  While one of its
\* queries is outstanding neither its callback has run nor has it emitted
\* "error"; when the call has ended, either the callback has run exactly
\* once (on success or with the exhaustion error) or "error" was emitted
\* exactly once, and no query of the call is outstanding; and a call with a
\* query outstanding always comes to its end, whatever the store answers.
C18_OneTerminalOutcome ==
    /\ [](\A w \in Workers :
            /\ InFlight(w) => send[w].callbacks = 0 /\ send[w].emits = 0
            /\ send[w].pc = "done" =>
                  /\ send[w].callbacks + send[w].emits = 1
                  /\ send[w].emits = 1 <=> send[w].result = "error"
                  /\ send[w].callbacks = 1 <=>
                        send[w].result \in {"ok", "exhausted"})
    /\ \A w \in Workers : InFlight(w) ~> (send[w].pc = "done")

\* one call has ended after a failed UPDATE with one "error" event, the
\* other with the exhaustion error handed to its callback once
C18_Witness ==
    /\ send["w1"].pc = "done"
    /\ send["w1"].result = "error"
    /\ send["w1"].inserts = 1
    /\ send["w1"].emits = 1
    /\ send["w1"].callbacks = 0
    /\ send["w2"].pc = "done"
    /\ send["w2"].result = "exhausted"
    /\ send["w2"].callbacks = 1
    /\ send["w2"].emits = 0
    /\ lastOp.op = "update"
    /\ lastOp.ev = "error"

\* C19: from a table in which no record is processing, a record with
\* requeued = true is permanent: whatever step is taken next (delivery,
\* heartbeat, requeue, remove, reclaim, sendMessage), the table still holds
\* a record with its hash and requeued = true.
C19_RequeuedStays ==
    [][\A r \in store :
          r.requeued = TRUE =>
             \E r2 \in RowOf(store', r.hash) : r2.requeued = TRUE]_vars

\* a requeued record has been through a remove whose DELETE was answered
\* without error and matched nothing, and then through the UPDATE of a
\* sendMessage of its payload: it is still there and still requeued
C19_Witness ==
    /\ lastOp.op = "update"
    /\ lastOp.ev = "none"
    /\ rm["w1"].pc = "done"
    /\ rm["w1"].hash = lastOp.hash
    /\ rm["w1"].deleted = FALSE
    /\ rm["w1"].requeued = FALSE
    /\ \E r \in RowOf(store, lastOp.hash) :
          r.requeued = TRUE /\ r.isProcessing = FALSE

\* C20 as stated: every checkNow whose selection query is answered emits
\* one event, "error" or "data", also when the answer is the empty result.
C20_CheckNowAlwaysEmits ==
    lastOp.op = "checkNow" => lastOp.ev \in {"error", "data"}

=============================================================================
